---- MODULE Spec2Model ----
(***************************************************************************)
(* A model of redditkarma.py: the karma trend store (one append-only file  *)
(* per user under TREND_DIR), get_karma, gnuplot_user, make_user_summary,  *)
(* get_trended_users, delete_user and the command-line dispatch of the     *)
(* __main__ block.                                                         *)
(*                                                                         *)
(* Python strings are sequences of one-character strings, so that          *)
(* str.replace, '%d' formatting, readlines/strip/split and strftime are    *)
(* computed character by character.  The trend directory is a function     *)
(* from the names of the files that exist to their contents.               *)
(***************************************************************************)
EXTENDS Integers, Sequences, FiniteSets, TLC

\* ------------------------------------------------------------------------
\* Bounds of the model
\* ------------------------------------------------------------------------
MaxRecords == 2
\* the largest number of lines a trend file may hold

MaxTicks == 1
\* the number of seconds the wall clock may advance past ClockStart

\* ------------------------------------------------------------------------
\* Characters and strings
\* ------------------------------------------------------------------------
TAB == "\t"
NL == "\n"
SP == " "
BSL == "\\"

Digits == <<"0", "1", "2", "3", "4", "5", "6", "7", "8", "9">>

Range(s) == {s[i] : i \in 1..Len(s)}

StartsWith(s, p) == Len(s) >= Len(p) /\ SubSeq(s, 1, Len(p)) = p

\* str.replace(old, new): every non-overlapping occurrence, leftmost first.
RECURSIVE Replace(_, _, _)
Replace(s, old, new) ==
    IF Len(s) < Len(old) THEN s
    ELSE IF StartsWith(s, old)
         THEN new \o Replace(SubSeq(s, Len(old) + 1, Len(s)), old, new)
         ELSE <<Head(s)>> \o Replace(Tail(s), old, new)

\* sep.join(items)
RECURSIVE Join(_, _)
Join(sep, items) ==
    IF items = <<>> THEN <<>>
    ELSE IF Len(items) = 1 THEN items[1]
    ELSE items[1] \o sep \o Join(sep, Tail(items))

\* '%d' % n for an integer n
RECURSIVE FormatNat(_)
FormatNat(n) ==
    IF n < 10 THEN <<Digits[n + 1]>>
    ELSE FormatNat(n \div 10) \o <<Digits[(n % 10) + 1]>>

FormatD(n) == IF n < 0 THEN <<"-">> \o FormatNat(0 - n) ELSE FormatNat(n)

\* '%02d' % n and '%04d' % n, as strftime pads its fields
RECURSIVE ZeroPad(_, _)
ZeroPad(s, width) == IF Len(s) >= width THEN s ELSE ZeroPad(<<"0">> \o s, width)

\* int(s) for a decimal string with an optional sign
DigitValue(c) == CHOOSE d \in 0..9 : Digits[d + 1] = c

RECURSIVE ParseNat(_)
ParseNat(s) ==
    IF s = <<>> THEN 0
    ELSE 10 * ParseNat(SubSeq(s, 1, Len(s) - 1)) + DigitValue(s[Len(s)])

ParseInt(s) == IF s # <<>> /\ Head(s) = "-" THEN 0 - ParseNat(Tail(s)) ELSE ParseNat(s)

\* file.readlines(): the lines of the text, each with its line end
RECURSIVE ReadLines(_)
ReadLines(text) ==
    IF text = <<>> THEN <<>>
    ELSE IF \E i \in 1..Len(text) : text[i] = NL
         THEN LET i == CHOOSE k \in 1..Len(text) :
                          text[k] = NL /\ \A j \in 1..(k - 1) : text[j] # NL
              IN  <<SubSeq(text, 1, i)>> \o ReadLines(SubSeq(text, i + 1, Len(text)))
         ELSE <<text>>

\* str.strip(): white space removed at both ends
IsSpace(c) == c \in {SP, TAB, NL}

RECURSIVE LStrip(_)
LStrip(s) == IF s # <<>> /\ IsSpace(Head(s)) THEN LStrip(Tail(s)) ELSE s

RECURSIVE RStrip(_)
RStrip(s) ==
    IF s # <<>> /\ IsSpace(s[Len(s)]) THEN RStrip(SubSeq(s, 1, Len(s) - 1)) ELSE s

Strip(s) == RStrip(LStrip(s))

\* str.split(sep) for a one-character separator
RECURSIVE Split(_, _)
Split(s, sep) ==
    IF \E i \in 1..Len(s) : s[i] = sep
    THEN LET i == CHOOSE k \in 1..Len(s) :
                     s[k] = sep /\ \A j \in 1..(k - 1) : s[j] # sep
         IN  <<SubSeq(s, 1, i - 1)>> \o Split(SubSeq(s, i + 1, Len(s)), sep)
    ELSE <<s>>

\* time.gmtime(t): the civil date and time of day of an epoch second
GmTime(t) ==
    LET days == t \div 86400
        secs == t % 86400
        z    == days + 719468
        era  == z \div 146097
        doe  == z - era * 146097
        yoe  == (doe - (doe \div 1460) + (doe \div 36524) - (doe \div 146096)) \div 365
        doy  == doe - (365 * yoe + (yoe \div 4) - (yoe \div 100))
        mp   == (5 * doy + 2) \div 153
        mon  == IF mp < 10 THEN mp + 3 ELSE mp - 9
    IN  [year  |-> yoe + era * 400 + (IF mon <= 2 THEN 1 ELSE 0),
         month |-> mon,
         day   |-> doy - ((153 * mp + 2) \div 5) + 1,
         hour  |-> secs \div 3600,
         min   |-> (secs % 3600) \div 60]

\* time.strftime(fmt, tm) for the directives %Y %m %d %H %M %F %R and %%
StrfDirective(c, tm) ==
    LET Y == ZeroPad(FormatNat(tm.year), 4)
        m == ZeroPad(FormatNat(tm.month), 2)
        d == ZeroPad(FormatNat(tm.day), 2)
        H == ZeroPad(FormatNat(tm.hour), 2)
        M == ZeroPad(FormatNat(tm.min), 2)
    IN  CASE c = "Y" -> Y
          [] c = "m" -> m
          [] c = "d" -> d
          [] c = "H" -> H
          [] c = "M" -> M
          [] c = "F" -> Y \o <<"-">> \o m \o <<"-">> \o d
          [] c = "R" -> H \o <<":">> \o M
          [] c = "%" -> <<"%">>
          [] OTHER   -> <<"%", c>>

RECURSIVE StrfTime(_, _)
StrfTime(fmt, tm) ==
    IF fmt = <<>> THEN <<>>
    ELSE IF Head(fmt) = "%" /\ Len(fmt) >= 2
         THEN StrfDirective(fmt[2], tm) \o StrfTime(SubSeq(fmt, 3, Len(fmt)), tm)
         ELSE <<Head(fmt)>> \o StrfTime(Tail(fmt), tm)

\* ------------------------------------------------------------------------
\* Global configuration (lines 124-141)
\* ------------------------------------------------------------------------
\* TIME_FMT = "%F %R"
TIME_FMT == <<"%", "F", SP, "%", "R">>

\* SUMMARY_FMT = "USERNAME(LINK_KARMA, COMMENT_KARMA)\n" at start-up
DEFAULT_SUMMARY_FMT ==
    <<"U", "S", "E", "R", "N", "A", "M", "E", "(",
      "L", "I", "N", "K", "_", "K", "A", "R", "M", "A", ",", SP,
      "C", "O", "M", "M", "E", "N", "T", "_", "K", "A", "R", "M", "A", ")", NL>>

\* The keys of the dictionary d of make_user_summary
K_LINK_KARMA == <<"L", "I", "N", "K", "_", "K", "A", "R", "M", "A">>
K_COMMENT_KARMA == <<"C", "O", "M", "M", "E", "N", "T", "_", "K", "A", "R", "M", "A">>
K_UNIXTIME == <<"U", "N", "I", "X", "T", "I", "M", "E">>
K_DATETIME == <<"D", "A", "T", "E", "T", "I", "M", "E">>
K_USERNAME == <<"U", "S", "E", "R", "N", "A", "M", "E">>

\* d.keys(): the language leaves the order of a dictionary's keys open.  The
\* first order is the one CPython 2 produces for these five keys in a table
\* of eight slots; the second is the order of the dictionary display, which
\* a randomised string hash (python -R) can produce.
KeyOrders ==
    { <<K_USERNAME, K_UNIXTIME, K_DATETIME, K_COMMENT_KARMA, K_LINK_KARMA>>,
      <<K_LINK_KARMA, K_COMMENT_KARMA, K_UNIXTIME, K_DATETIME, K_USERNAME>> }

\* Labels of gnuplot_user
S_karma_on ==
    <<"'", "s", SP, "k", "a", "r", "m", "a", SP, "o", "n", SP,
      "r", "e", "d", "d", "i", "t", ".", "c", "o", "m">>
S_comparison ==
    <<"k", "a", "r", "m", "a", SP,
      "c", "o", "m", "p", "a", "r", "i", "s", "o", "n", SP, "(">>
S_comment == <<SP, "c", "o", "m", "m", "e", "n", "t">>
S_submission == <<SP, "s", "u", "b", "m", "i", "s", "s", "i", "o", "n">>
S_total == <<SP, "t", "o", "t", "a", "l">>
CommaSp == <<",", SP>>

\* The text print_help writes
USAGE == <<"<usage>">>

\* ------------------------------------------------------------------------
\* Inputs of the model
\* ------------------------------------------------------------------------
\* Two reddit user names; the second one spells a summary token.
Bob == <<"b", "o", "b">>
Unixtime == <<"U", "N", "I", "X", "T", "I", "M", "E">>
Users == {Bob, Unixtime}

\* The wall clock when the model starts: the last second of a day, so that
\* one tick changes every field of the formatted date.
ClockStart == 86399

\* What urlopen(...).read() and json.loads(...) can give get_karma:
\*   neterror  urlopen raises IOError
\*   badjson   the body is no JSON document, or has no 'data' member
\*   missing   data lacks link_karma or comment_karma
\*   json      both fields are there; num tells whether both are numbers
Responses ==
    { [kind |-> "json", num |-> TRUE, link |-> 12, comm |-> -3],
      [kind |-> "json", num |-> FALSE, link |-> 0, comm |-> 0],
      [kind |-> "neterror", num |-> FALSE, link |-> 0, comm |-> 0],
      [kind |-> "badjson", num |-> FALSE, link |-> 0, comm |-> 0],
      [kind |-> "missing", num |-> FALSE, link |-> 0, comm |-> 0] }

\* --summary-format and --summary-time-format values; <<>> is "not given"
\* the given one is "DATETIME USERNAME\\tUNIXTIME\\n", escapes not yet expanded
SummaryFormats ==
    { <<>>,
      <<"D", "A", "T", "E", "T", "I", "M", "E", SP,
        "U", "S", "E", "R", "N", "A", "M", "E", BSL, "t",
        "U", "N", "I", "X", "T", "I", "M", "E", BSL, "n">> }
TimeFormats == { <<>>, <<"%", "Y">> }

\* Positional arguments
RECURSIVE SeqsUpTo(_, _)
SeqsUpTo(S, n) ==
    IF n = 0 THEN {<<>>}
    ELSE LET shorter == SeqsUpTo(S, n - 1)
         IN  shorter \cup {Append(s, x) : s \in shorter, x \in S}

NoDup(s) == \A i, j \in 1..Len(s) : s[i] = s[j] => i = j

\* no user, one user, or both in either order
ArgLists == {s \in SeqsUpTo(Users, Cardinality(Users)) : NoDup(s)}

\* The options parse_args can return: every combination of the six flags;
\* an option that carries a value is given one only in the invocations that
\* reach the line reading it (--user line 315, --only-total line 336,
\* --summary-format line 364, --summary-time-format line 372).
ReadsUser(o) == ~o.list /\ (o.plot \/ o.fetch \/ o.summary \/ o.delete)

ReadsPlotOptions(o) == ReadsUser(o) /\ o.user = <<>> /\ ~o.delete /\ o.plot

ReadsSummaryOptions(o) == ReadsUser(o) /\ o.user = <<>> /\ ~o.delete /\ o.summary

Options ==
    { o \in [list : BOOLEAN, plot : BOOLEAN, fetch : BOOLEAN, summary : BOOLEAN,
             delete : BOOLEAN, all : BOOLEAN, user : {<<>>, Unixtime},
             sformat : SummaryFormats, tformat : TimeFormats,
             onlytotal : BOOLEAN] :
        /\ o.user # <<>> => ReadsUser(o)
        /\ o.onlytotal => ReadsPlotOptions(o)
        /\ (o.sformat # <<>> \/ o.tformat # <<>>) => ReadsSummaryOptions(o) }

\* ------------------------------------------------------------------------
\* The trend directory and the functions that use it
\* ------------------------------------------------------------------------
\* The directory is a function: the names of the files that exist, each with
\* its text.  Restrict(st, S) keeps the files named in S.
Restrict(st, S) == [u \in (DOMAIN st) \cap S |-> st[u]]

WithFile(st, user, text) ==
    [u \in (DOMAIN st) \cup {user} |-> IF u = user THEN text ELSE st[u]]

NoError == [kind |-> "", user |-> <<>>]

\* The line get_karma writes: '%d\t%d\t%d\n' % (time, link_karma, comment_karma)
TrendLine(t, link, comm) ==
    FormatD(t) \o <<TAB>> \o FormatD(link) \o <<TAB>> \o FormatD(comm) \o <<NL>>

\* get_karma(user) at wall-clock second t with the response resp: the
\* directory afterwards and the exception that leaves the function, if any.
GetKarma(st, user, t, resp) ==
    IF resp.kind = "neterror"
    THEN [store |-> st, error |-> [kind |-> "IOError", user |-> user]]
    ELSE IF resp.kind = "badjson"
    THEN [store |-> st, error |-> [kind |-> "ValueError", user |-> user]]
    ELSE IF resp.kind = "missing"
    THEN [store |-> st, error |-> [kind |-> "KeyError", user |-> user]]
    ELSE LET opened == IF user \in DOMAIN st THEN st ELSE WithFile(st, user, <<>>)
         IN  IF ~resp.num
             THEN [store |-> opened, error |-> [kind |-> "TypeError", user |-> user]]
             ELSE [store |-> WithFile(opened, user,
                                      opened[user] \o TrendLine(t, resp.link, resp.comm)),
                   error |-> NoError]

\* The series gnuplot_user plots for one user
UserPlots(user, onlyTotal) ==
    (IF onlyTotal THEN <<>>
     ELSE << [data |-> user, using |-> "1:3", title |-> user \o S_comment],
             [data |-> user, using |-> "1:2", title |-> user \o S_submission] >>)
    \o << [data |-> user, using |-> "1:($2+$3)", title |-> user \o S_total] >>

RECURSIVE AllPlots(_, _)
AllPlots(users, onlyTotal) ==
    IF users = <<>> THEN <<>>
    ELSE UserPlots(Head(users), onlyTotal) \o AllPlots(Tail(users), onlyTotal)

PlotTitle(users) ==
    IF Len(users) = 1 THEN users[1] \o S_karma_on
    ELSE S_comparison \o Join(CommaSp, users) \o <<")">>

\* os.path.isfile(plotdata)
IsFile(st, user) == user \in DOMAIN st

\* gnuplot_user(users) up to the call of gnuplot: the user the exception of
\* line 184 names (<<>> when it is not raised) and the configuration written
\* to PLOT_FILE.
GnuplotUser(st, users, onlyTotal) ==
    IF \E i \in 1..Len(users) : ~IsFile(st, users[i])
    THEN LET i == CHOOSE k \in 1..Len(users) :
                     ~IsFile(st, users[k]) /\ \A j \in 1..(k - 1) : IsFile(st, users[j])
         IN  [raised |-> users[i], written |-> FALSE, title |-> <<>>, plots |-> <<>>]
    ELSE [raised |-> <<>>, written |-> TRUE, title |-> PlotTitle(users),
          plots |-> AllPlots(users, onlyTotal)]

\* One call of gnuplot_user, as the program's history records it: the files
\* of the plotted users as gnuplot finds them, the outcome of lines 173-200,
\* whether gnuplot was started and whether it ended with status 0.
PlotCall(st, users, onlyTotal, gnuplotOk) ==
    LET g == GnuplotUser(st, users, onlyTotal)
    IN  [users |-> users, data |-> Restrict(st, Range(users)),
         raised |-> g.raised, written |-> g.written,
         title |-> g.title, plots |-> g.plots,
         invoked |-> g.written, ok |-> g.written /\ gnuplotOk]

PlotError(call) ==
    IF call.raised # <<>> THEN [kind |-> "Exception", user |-> call.raised]
    ELSE IF ~call.ok THEN [kind |-> "CalledProcessError", user |-> <<>>]
    ELSE NoError

\* A slip in line 214: the first line read instead of the last
LatestFieldsOfFirstLine(text) ==
    LET lines == ReadLines(text)
    IN  Split(Strip(lines[1]), TAB)

\* h.readlines()[-1].strip().split("\t") of make_user_summary
LatestFields(text) ==
    LET lines == ReadLines(text)
    IN  Split(Strip(lines[Len(lines)]), TAB)

\* s = s.replace(key, d[key]) for the keys in the given order
RECURSIVE ReplaceAll(_, _, _)
ReplaceAll(s, keys, d) ==
    IF keys = <<>> THEN s
    ELSE ReplaceAll(Replace(s, Head(keys), d[Head(keys)]), Tail(keys), d)

\* make_user_summary(user): found is FALSE when the function returns False,
\* error names the exception that leaves it, fields are the three strings
\* read from the last line and s is the summary.
MakeUserSummary(st, user, fmt, keys) ==
    IF user \notin DOMAIN st
    THEN [found |-> FALSE, error |-> NoError, fields |-> <<>>, s |-> <<>>]
    ELSE IF ReadLines(st[user]) = <<>>
    THEN [found |-> FALSE, error |-> [kind |-> "IndexError", user |-> user],
          fields |-> <<>>, s |-> <<>>]
    ELSE LET f == LatestFields(st[user])
         IN  IF Len(f) # 3
             THEN [found |-> FALSE, error |-> [kind |-> "ValueError", user |-> user],
                   fields |-> f, s |-> <<>>]
             ELSE LET d == [k \in Range(keys) |->
                              CASE k = K_LINK_KARMA    -> f[2]
                                [] k = K_COMMENT_KARMA -> f[3]
                                [] k = K_UNIXTIME      -> f[1]
                                [] k = K_DATETIME      ->
                                       StrfTime(TIME_FMT, GmTime(ParseInt(f[1])))
                                [] k = K_USERNAME      -> user]
                  IN  [found |-> TRUE, error |-> NoError, fields |-> f,
                       s |-> ReplaceAll(fmt, keys, d)]

\* get_trended_users(): the files of the directory whose names do not start
\* with a dot, in the order os.listdir gives them, which is any order.
IsListing(st, listing) ==
    /\ NoDup(listing)
    /\ Range(listing) = {u \in DOMAIN st : ~StartsWith(u, <<".">>)}

Listings(st) == {l \in SeqsUpTo(DOMAIN st, Cardinality(DOMAIN st)) : IsListing(st, l)}

\* A slip in line 247: the whole trend directory removed
DeleteUserRemovesAll(st, user) ==
    IF user \in DOMAIN st THEN Restrict(st, {}) ELSE st

\* delete_user(user)
DeleteUser(st, user) ==
    IF user \in DOMAIN st THEN Restrict(st, (DOMAIN st) \ {user}) ELSE st

RECURSIVE DeleteUsers(_, _)
DeleteUsers(st, users) ==
    IF users = <<>> THEN st ELSE DeleteUsers(DeleteUser(st, Head(users)), Tail(users))

\* The users whose file delete_user removed, in the order of the loop
RECURSIVE RemovedUsers(_, _)
RemovedUsers(st, users) ==
    IF users = <<>> THEN <<>>
    ELSE (IF Head(users) \in DOMAIN st THEN <<Head(users)>> ELSE <<>>)
         \o RemovedUsers(DeleteUser(st, Head(users)), Tail(users))

\* The summary format of lines 364-374
ExpandEscapes(fmt) == Replace(Replace(fmt, <<BSL, "t">>, <<TAB>>), <<BSL, "n">>, <<NL>>)

SummaryFormat(options) ==
    IF options.tformat # <<>> THEN options.tformat
    ELSE IF options.sformat # <<>> THEN ExpandEscapes(options.sformat)
    ELSE DEFAULT_SUMMARY_FMT

\* The loop of lines 376-384: what is printed, what was read from the files
\* and the exception that ends the loop early, if any.
RECURSIVE SummaryLoop(_, _, _, _)
SummaryLoop(st, users, fmt, keys) ==
    IF users = <<>>
    THEN [out |-> <<>>, read |-> <<>>, error |-> NoError, last |-> <<>>]
    ELSE LET m == MakeUserSummary(st, Head(users), fmt, keys)
         IN  IF m.error # NoError
             THEN [out |-> <<>>, read |-> <<>>, error |-> m.error, last |-> <<>>]
             ELSE LET rest  == SummaryLoop(st, Tail(users), fmt, keys)
                      shown == m.found /\ m.s # <<>>
                  IN  [out   |-> (IF shown THEN <<m.s>> ELSE <<>>) \o rest.out,
                       read  |-> (IF m.found
                                  THEN <<[user |-> Head(users), fields |-> m.fields]>>
                                  ELSE <<>>) \o rest.read,
                       error |-> rest.error,
                       last  |-> IF Tail(users) = <<>> THEN m.s ELSE rest.last]

\* ------------------------------------------------------------------------
\* The state
\* ------------------------------------------------------------------------
VARIABLES
    store,            \* TREND_DIR: the trend files that exist and their text
    now,              \* int(time.time())
    pc,               \* where the running invocation is: idle, fetch, plot,
                      \* summary, done (sys.exit or the end of the script)
                      \* or crashed (an exception left the script)
    options,          \* options of parser.parse_args()
    args,             \* the positional arguments of parser.parse_args()
    users,            \* the list users of the __main__ block
    idx,              \* the position of the loop of lines 356-357 in users
    PLOT_ONLY_TOTAL,  \* the global of line 129
    SUMMARY_FMT,      \* the global of line 128
    stdout,           \* the strings printed, one per print statement
    exitcode,         \* the exit status of the invocation, -1 while it runs
    error,            \* the exception that ended the invocation, if any
    attempts,         \* history: the calls of get_karma of this invocation
    plotcalls,        \* history: the calls of gnuplot_user of this invocation
    removed,          \* history: the users whose file this invocation removed
    read,             \* history: the fields make_user_summary read
    appended          \* history: per user, the records get_karma wrote to the
                      \* file that exists now, oldest first

vars == <<store, now, pc, options, args, users, idx, PLOT_ONLY_TOTAL, SUMMARY_FMT,
          stdout, exitcode, error, attempts, plotcalls, removed, read, appended>>

NoOptions ==
    [list |-> FALSE, plot |-> FALSE, fetch |-> FALSE, summary |-> FALSE,
     delete |-> FALSE, all |-> FALSE, user |-> <<>>, sformat |-> <<>>,
     tformat |-> <<>>, onlytotal |-> FALSE]

EmptyDir == [u \in {} |-> <<>>]

\* A fresh process: the globals of lines 124-130 and nothing done yet.
FreshProcess ==
    [pc |-> "idle", options |-> NoOptions, args |-> <<>>, users |-> <<>>, idx |-> 1,
     PLOT_ONLY_TOTAL |-> FALSE, SUMMARY_FMT |-> DEFAULT_SUMMARY_FMT,
     stdout |-> <<>>, exitcode |-> -1, error |-> NoError, attempts |-> <<>>,
     plotcalls |-> <<>>, removed |-> <<>>, read |-> <<>>]

\* The trend directory as lines 120-122 create it: empty.
Init ==
    /\ store = EmptyDir
    /\ now = ClockStart
    /\ appended = [u \in Users |-> <<>>]
    /\ pc = FreshProcess.pc
    /\ options = FreshProcess.options
    /\ args = FreshProcess.args
    /\ users = FreshProcess.users
    /\ idx = FreshProcess.idx
    /\ PLOT_ONLY_TOTAL = FreshProcess.PLOT_ONLY_TOTAL
    /\ SUMMARY_FMT = FreshProcess.SUMMARY_FMT
    /\ stdout = FreshProcess.stdout
    /\ exitcode = FreshProcess.exitcode
    /\ error = FreshProcess.error
    /\ attempts = FreshProcess.attempts
    /\ plotcalls = FreshProcess.plotcalls
    /\ removed = FreshProcess.removed
    /\ read = FreshProcess.read

\* ------------------------------------------------------------------------
\* The __main__ block
\* ------------------------------------------------------------------------
\* Where the script goes after lines 334-353, 355-357 and 359-361.
AfterFirstPlot(o) ==
    IF o.fetch THEN "fetch" ELSE IF o.plot THEN "plot"
    ELSE IF o.summary THEN "summary" ELSE "done"

AfterFetch(o) == IF o.plot THEN "plot" ELSE IF o.summary THEN "summary" ELSE "done"

AfterPlot(o) == IF o.summary THEN "summary" ELSE "done"

ExitCodeAt(p) == IF p = "done" THEN 0 ELSE IF p = "crashed" THEN 1 ELSE -1

\* Lines 297-353 for the options o, the positional arguments a, the order
\* listing in which os.listdir names the files and the exit status of
\* gnuplot: everything up to the first network request.
MainStep(st, o, a, listing, gnuplotOk) ==
    LET base == [pc |-> "done", exitcode |-> 0, users |-> a, store |-> st,
                 stdout |-> <<>>, error |-> NoError, plotcalls |-> <<>>,
                 removed |-> <<>>, onlytotal |-> FALSE]
    IN
    IF o.list
    THEN [base EXCEPT !.users = listing, !.stdout = <<Join(<<SP>>, listing)>>]
    ELSE IF ~o.plot /\ ~o.fetch /\ ~o.summary /\ ~o.delete
    THEN [base EXCEPT !.stdout = <<USAGE>>, !.exitcode = 1]
    ELSE IF o.user # <<>>
    THEN \* line 316 reads the name user, which nothing has bound yet
         [base EXCEPT !.pc = "crashed", !.exitcode = 1,
                      !.error = [kind |-> "NameError", user |-> <<>>]]
    ELSE LET us == IF o.all THEN a \o listing ELSE a
         IN  IF us = <<>>
             THEN [base EXCEPT !.stdout = <<USAGE>>, !.exitcode = 1]
             ELSE IF o.delete
             THEN [base EXCEPT !.users = us, !.store = DeleteUsers(st, us),
                               !.removed = RemovedUsers(st, us)]
             ELSE IF o.plot
             THEN LET call == PlotCall(st, us, o.onlytotal, gnuplotOk)
                      p    == IF PlotError(call) # NoError THEN "crashed"
                              ELSE AfterFirstPlot(o)
                  IN  [base EXCEPT !.users = us, !.onlytotal = o.onlytotal,
                                   !.plotcalls = <<call>>, !.error = PlotError(call),
                                   !.pc = p, !.exitcode = ExitCodeAt(p)]
             ELSE [base EXCEPT !.users = us, !.pc = AfterFirstPlot(o),
                               !.exitcode = ExitCodeAt(AfterFirstPlot(o))]

Main(o, a, listing, gnuplotOk) ==
    /\ pc = "idle"
    /\ LET m == MainStep(store, o, a, listing, gnuplotOk)
       IN  /\ options' = o
           /\ args' = a
           /\ users' = m.users
           /\ store' = m.store
           /\ appended' = [u \in Users |-> IF u \in DOMAIN m.store THEN appended[u]
                                           ELSE <<>>]
           /\ stdout' = m.stdout
           /\ error' = m.error
           /\ plotcalls' = m.plotcalls
           /\ removed' = m.removed
           /\ PLOT_ONLY_TOTAL' = m.onlytotal
           /\ pc' = m.pc
           /\ exitcode' = m.exitcode
    /\ UNCHANGED <<now, idx, SUMMARY_FMT, attempts, read>>

\* One turn of the loop of lines 356-357: get_karma(users[idx]).  When the
\* call reaches line 163 it reads the clock, dt seconds after the last reading.
FetchKarma(resp, dt) ==
    /\ pc = "fetch"
    /\ now + dt <= ClockStart + MaxTicks
    /\ resp.kind # "json" => dt = 0
    /\ (resp.kind = "json" /\ resp.num) => Len(appended[users[idx]]) < MaxRecords
    /\ LET user == users[idx]
           g    == GetKarma(store, user, now + dt, resp)
           p    == IF g.error # NoError THEN "crashed"
                   ELSE IF idx < Len(users) THEN "fetch"
                   ELSE AfterFetch(options)
       IN  /\ store' = g.store
           /\ now' = now + dt
           /\ attempts' = Append(attempts, [user |-> user, ok |-> g.error = NoError])
           /\ appended' = IF g.error = NoError
                          THEN [appended EXCEPT ![user] =
                                  Append(@, <<now + dt, resp.link, resp.comm>>)]
                          ELSE appended
           /\ error' = g.error
           /\ idx' = IF g.error = NoError THEN idx + 1 ELSE idx
           /\ pc' = p
           /\ exitcode' = ExitCodeAt(p)
    /\ UNCHANGED <<options, args, users, PLOT_ONLY_TOTAL, SUMMARY_FMT, stdout,
                   plotcalls, removed, read>>

\* Lines 359-361: gnuplot_user(users) after the fetch loop.
Plot(gnuplotOk) ==
    /\ pc = "plot"
    /\ LET call == PlotCall(store, users, PLOT_ONLY_TOTAL, gnuplotOk)
           p    == IF PlotError(call) # NoError THEN "crashed" ELSE AfterPlot(options)
       IN  /\ plotcalls' = Append(plotcalls, call)
           /\ error' = PlotError(call)
           /\ pc' = p
           /\ exitcode' = ExitCodeAt(p)
    /\ UNCHANGED <<store, now, options, args, users, idx, PLOT_ONLY_TOTAL,
                   SUMMARY_FMT, stdout, attempts, removed, read, appended>>

\* Lines 363-384: the summary of every user, with the dictionary of
\* make_user_summary listing its keys in the order keys.
Summary(keys) ==
    /\ pc = "summary"
    /\ LET fmt  == SummaryFormat(options)
           r    == SummaryLoop(store, users, fmt, keys)
           tail == IF r.error = NoError /\ r.last # <<>> /\ r.last[Len(r.last)] # NL
                   THEN << <<NL>> >> ELSE <<>>
           p    == IF r.error # NoError THEN "crashed" ELSE "done"
       IN  /\ SUMMARY_FMT' = fmt
           /\ stdout' = stdout \o r.out \o tail
           /\ read' = r.read
           /\ error' = r.error
           /\ pc' = p
           /\ exitcode' = ExitCodeAt(p)
    /\ UNCHANGED <<store, now, options, args, users, idx, PLOT_ONLY_TOTAL,
                   attempts, plotcalls, removed, appended>>

\* The process has ended; the next invocation starts a fresh one.
Exit ==
    /\ pc \in {"done", "crashed"}
    /\ pc' = FreshProcess.pc
    /\ options' = FreshProcess.options
    /\ args' = FreshProcess.args
    /\ users' = FreshProcess.users
    /\ idx' = FreshProcess.idx
    /\ PLOT_ONLY_TOTAL' = FreshProcess.PLOT_ONLY_TOTAL
    /\ SUMMARY_FMT' = FreshProcess.SUMMARY_FMT
    /\ stdout' = FreshProcess.stdout
    /\ exitcode' = FreshProcess.exitcode
    /\ error' = FreshProcess.error
    /\ attempts' = FreshProcess.attempts
    /\ plotcalls' = FreshProcess.plotcalls
    /\ removed' = FreshProcess.removed
    /\ read' = FreshProcess.read
    /\ UNCHANGED <<store, now, appended>>

\* One step of the program, with the inputs the environment can give it.
Invoke ==
    /\ pc = "idle"
    /\ \E o \in Options, a \in ArgLists, l \in Listings(store), ok \in BOOLEAN :
           Main(o, a, l, ok)

Fetch ==
    /\ pc = "fetch"
    /\ \E resp \in Responses, dt \in 0..1 : FetchKarma(resp, dt)

Render ==
    /\ pc = "plot"
    /\ \E ok \in BOOLEAN : Plot(ok)

Summarize ==
    /\ pc = "summary"
    /\ \E keys \in KeyOrders : Summary(keys)

Next == Invoke \/ Fetch \/ Render \/ Summarize \/ Exit

Spec == Init /\ [][Next]_vars

\* The invocations that only fetch, summarise and delete: no --list, --plot
\* or --user, and the summary options left alone.
StoreOptions ==
    {o \in Options : ~o.list /\ ~o.plot /\ o.user = <<>>
                     /\ o.sformat = <<>> /\ o.tformat = <<>>}

InvokeStore ==
    /\ pc = "idle"
    /\ \E o \in StoreOptions, a \in ArgLists, l \in Listings(store) : Main(o, a, l, TRUE)

NextStore == InvokeStore \/ Fetch \/ Summarize \/ Exit

SpecStore == Init /\ [][NextStore]_vars

\* ------------------------------------------------------------------------
\* Properties
\* ------------------------------------------------------------------------
RunEnded == pc \in {"done", "crashed"}

Last(s) == s[Len(s)]

\* The accounts that have trend data
Known(st) == {u \in DOMAIN st : ~StartsWith(u, <<".">>)}

\* The account set an invocation names: the positional arguments, the
\* --user name and, with --all, the known accounts
Resolved(o, a, st) ==
    Range(a) \cup (IF o.user # <<>> THEN {o.user} ELSE {})
             \cup (IF o.all THEN Known(st) ELSE {})

AnyAction(o) == o.plot \/ o.fetch \/ o.summary \/ o.delete

FetchErrors == {"IOError", "ValueError", "KeyError", "TypeError"}

\* An account with zero stored records: no log, or a log without a line
ZeroRecords(data, u) == u \notin DOMAIN data \/ ReadLines(data[u]) = <<>>

\* Substitution in one pass: at each place of the template the longest
\* token that starts there is replaced by its value, and the value is not
\* looked at again.
TokensAt(s, d) == {k \in DOMAIN d : StartsWith(s, k)}

RECURSIVE SubstituteOnce(_, _)
SubstituteOnce(s, d) ==
    IF s = <<>> THEN <<>>
    ELSE IF TokensAt(s, d) # {}
         THEN LET k == CHOOSE t \in TokensAt(s, d) :
                           \A t2 \in TokensAt(s, d) : Len(t2) <= Len(t)
              IN  d[k] \o SubstituteOnce(SubSeq(s, Len(k) + 1, Len(s)), d)
         ELSE <<Head(s)>> \o SubstituteOnce(Tail(s), d)

AllKeys == {K_LINK_KARMA, K_COMMENT_KARMA, K_UNIXTIME, K_DATETIME, K_USERNAME}

\* The values of the tokens for a record read from a log, with the date
\* rendered by the time format tfmt
TokenValues(r, tfmt) ==
    [k \in AllKeys |->
        CASE k = K_LINK_KARMA    -> r.fields[2]
          [] k = K_COMMENT_KARMA -> r.fields[3]
          [] k = K_UNIXTIME      -> r.fields[1]
          [] k = K_DATETIME      -> StrfTime(tfmt, GmTime(ParseInt(r.fields[1])))
          [] k = K_USERNAME      -> r.user]

\* The template and time format the options ask for
AskedTemplate(o) ==
    IF o.sformat # <<>> THEN ExpandEscapes(o.sformat) ELSE DEFAULT_SUMMARY_FMT

AskedTimeFormat(o) == IF o.tformat # <<>> THEN o.tformat ELSE TIME_FMT

\* C1: when an invocation with both fetch and plot on a non-empty account
\* list has ended (without a failed request, a failed renderer or the
\* NameError of --user), every account was fetched and the last chart was
\* rendered from the logs holding the records of this fetch.
C1_FetchBeforeKeptRender ==
    (/\ RunEnded
     /\ ~options.list /\ ~options.delete /\ options.plot /\ options.fetch
     /\ users # <<>>
     /\ error.kind \in {"", "Exception"})
    => /\ Len(attempts) = Len(users)
       /\ \A i \in 1..Len(attempts) : attempts[i].ok
       /\ plotcalls # <<>>
       /\ Last(plotcalls).invoked
       /\ Last(plotcalls).data = Restrict(store, Range(users))

\* C2: when an invocation has ended in which get_karma failed for an account
\* that is not the last of the list, get_karma was still called for every
\* later account, in the order of the list, and the failed fetch did not end
\* the invocation.
C2_FetchErrorIsolation ==
    (/\ RunEnded
     /\ \E i \in 1..Len(attempts) : ~attempts[i].ok /\ i < Len(users))
    => /\ Len(attempts) = Len(users)
       /\ \A i \in 1..Len(attempts) : attempts[i].user = users[i]
       /\ error.kind \notin FetchErrors

\* C3: a plot composition over a list in which some account has zero
\* records raises the error naming the first such account, writes no
\* configuration and does not start the renderer.
C3_NoTrendDataFailsFast ==
    \A k \in 1..Len(plotcalls) :
        LET c == plotcalls[k]
            zero == {i \in 1..Len(c.users) : ZeroRecords(c.data, c.users[i])}
        IN  zero # {}
            => /\ c.raised = c.users[CHOOSE i \in zero : \A j \in zero : i <= j]
               /\ ~c.written
               /\ ~c.invoked

\* C4: list wins over every other action: the invocation prints the known
\* accounts, exits 0 and changes, fetches, plots and summarises nothing;
\* otherwise delete wins: with a non-empty resolved account set the
\* invocation removes exactly the resolved accounts' logs, exits 0 and
\* fetches, plots and summarises nothing.
C4_ListThenDeleteExclusive ==
    [][ (pc = "idle" /\ pc' # "idle")
        => /\ options'.list
              => /\ pc' = "done" /\ exitcode' = 0
                 /\ store' = store
                 /\ \E l \in Listings(store) : stdout' = <<Join(<<SP>>, l)>>
                 /\ attempts' = <<>> /\ plotcalls' = <<>> /\ read' = <<>>
           /\ (/\ ~options'.list /\ options'.delete
               /\ Resolved(options', args', store) # {})
              => /\ pc' = "done" /\ exitcode' = 0
                 /\ store' = Restrict(store,
                                      (DOMAIN store) \ Resolved(options', args', store))
                 /\ attempts' = <<>> /\ plotcalls' = <<>> /\ read' = <<>>
                 /\ stdout' = <<>> ]_vars

\* C5: in an invocation with an action flag the accounts operated on are
\* the union of the named accounts and, with --all, the known accounts,
\* each of them once.
C5_ResolvedIsSetUnion ==
    [][ (/\ pc = "idle" /\ pc' # "idle"
         /\ ~options'.list /\ AnyAction(options')
         /\ Resolved(options', args', store) # {})
        => /\ error'.kind # "NameError"
           /\ Range(users') = Resolved(options', args', store)
           /\ NoDup(users') ]_vars

\* C6: a summary run given a time format prints, for every account read,
\* the asked template with its tokens substituted, the date rendered by the
\* given time format.
C6_TimeFormatOnlyDate ==
    (pc = "done" /\ read # <<>> /\ options.tformat # <<>>)
    => /\ Len(stdout) >= Len(read)
       /\ \A i \in 1..Len(read) :
              stdout[i] = SubstituteOnce(AskedTemplate(options),
                                         TokenValues(read[i], AskedTimeFormat(options)))

\* C7: every summary printed is the template in force with each token
\* occurrence substituted once, inserted values left as they are, whatever
\* the order of the tokens.
C7_SubstituteOncePerOccurrence ==
    (pc = "done" /\ read # <<>>)
    => /\ Len(stdout) >= Len(read)
       /\ \A i \in 1..Len(read) :
              stdout[i] = SubstituteOnce(SUMMARY_FMT, TokenValues(read[i], TIME_FMT))

\* C8: the three fields a summary reads from an account's log are the
\* values of the record appended to that log last, however many records
\* were appended before it.
C8_AppendLatestRoundTrip ==
    \A i \in 1..Len(read) :
        LET r == read[i]
        IN  /\ appended[r.user] # <<>>
            /\ Len(r.fields) = 3
            /\ <<ParseInt(r.fields[1]), ParseInt(r.fields[2]), ParseInt(r.fields[3])>>
                   = Last(appended[r.user])

\* C8 witness: a summary read a log holding two records with different
\* timestamps.
C8_Witness ==
    /\ pc = "done"
    /\ \E i \in 1..Len(read) :
           /\ Len(appended[read[i].user]) >= 2
           /\ appended[read[i].user][1] # Last(appended[read[i].user])

\* C9: the delete of the accounts of the list leaves the store as it was
\* without their logs: they no longer exist, every other log is unchanged,
\* and deleting accounts without a log changes nothing and is no error.
C9_DeleteFrame ==
    [][ (/\ pc = "idle" /\ pc' = "done"
         /\ ~options'.list /\ options'.delete /\ users' # <<>>)
        => /\ DOMAIN store' = (DOMAIN store) \ Range(users')
           /\ \A u \in DOMAIN store' : store'[u] = store[u]
           /\ (Range(users') \cap DOMAIN store = {} => store' = store)
           /\ error' = NoError /\ exitcode' = 0 ]_vars

\* C9 witness: a delete removed a log while another account's log stayed.
C9_Witness ==
    /\ pc = "done" /\ options.delete /\ ~options.list
    /\ removed # <<>>
    /\ DOMAIN store # {}

\* C10: every log that exists holds at least one complete record, since a
\* failed fetch creates no log and adds no line.
C10_FailedFetchLeavesStore ==
    \A u \in DOMAIN store :
        /\ ReadLines(store[u]) # <<>>
        /\ \A k \in 1..Len(ReadLines(store[u])) :
               Len(Split(Strip(ReadLines(store[u])[k]), TAB)) = 3

====
